---- MODULE Spec2Model ----
(***************************************************************************)
(* Model of custom_component/overkiz_local/__init__.py: the config-entry   *)
(* migration (async_migrate_entry), the setup sequence (async_setup_entry) *)
(* and the teardown (async_unload_entry) of the Overkiz integration.       *)
(* Each await of the source is a suspension point, so every action below   *)
(* is the code that runs between two awaits.                               *)
(***************************************************************************)
EXTENDS FiniteSets, Integers, Sequences, TLC

VARIABLES
    active,           \* the config entries the host framework manages in this run
    hub,              \* per entry: setup and scenarios, what the hub answered to the
                      \* current / last setup attempt (<<>> before the fetch)
    entries,          \* per entry: the ConfigEntry object (version, data)
    persisted,        \* per entry: the data written through async_update_entry (<<>> if none)
    preMigration,     \* per entry: the ConfigEntry as it was when migration was called (<<>> if none)
    pc,               \* per entry: where the entry's setup / unload coroutine is suspended
    outcome,          \* per entry: how the last async_setup_entry ended
    cause,            \* per entry: the exception that ended the last setup ("none" if none)
    failedAt,         \* per entry: the step of the last setup that raised ("none" if none)
    steps,            \* per entry: the steps the current / last setup attempt has performed
    readKeys,         \* per entry: the entry.data keys read by the current / last setup attempt
    sessions,         \* per entry: the sessions created by the current / last setup attempt
    clients,          \* per entry: the clients constructed by the current / last setup attempt
    coord,            \* per entry: the coordinator local of the current / last setup attempt
    hassData,         \* hass.data[DOMAIN]: entry_id -> HomeAssistantOverkizData
    deviceRegistry,   \* the device registry: the records created by async_get_or_create
    forwarded,        \* per entry: platforms handed to async_forward_entry_setups
    unloadRequested,  \* per entry: platforms handed to async_unload_platforms
    platformUnload,   \* per entry: what async_unload_platforms reported (<<>> if not called)
    unloadRaised,     \* per entry: the exception async_unload_entry raised (None if none)
    unloadReturn,     \* per entry: the value async_unload_entry returned (<<>> if none)
    bundleAtUnload,   \* per entry: hass.data[DOMAIN] as async_unload_entry found it
    migrateReturn     \* per entry: the value async_migrate_entry returned (<<>> if none)

vars == <<active, hub, entries, persisted, preMigration, pc, outcome, cause,
          failedAt, steps, readKeys, sessions, clients, coord, hassData,
          deviceRegistry, forwarded, unloadRequested, platformUnload,
          unloadRaised, unloadReturn, bundleAtUnload, migrateReturn>>

-----------------------------------------------------------------------------
(* Bounds of the model *)

MaxDevices == 2
MaxGateways == 2

-----------------------------------------------------------------------------
(* Constants of the integration and of its collaborators *)

EntryIds == {"e1", "e2"}

CONF_HOST == "host"
CONF_PASSWORD == "password"
CONF_TOKEN == "token"
CONF_USERNAME == "username"
CONF_API_TYPE == "api_type"
CONF_HUB == "hub"
CONF_SERVER == "server"

APIType_LOCAL == "local"
APIType_CLOUD == "cloud"

UPDATE_INTERVAL == 30
UPDATE_INTERVAL_ALL_ASSUMED_STATE == 3600

\* PLATFORMS: the platforms the integration sets up. The list is fixed and
\* holds every platform OVERKIZ_DEVICE_TO_PLATFORM can yield, besides
\* platforms no device is classified into.
PLATFORMS == {"cover", "light", "scene", "sensor"}

None == "None"

\* Widgets and UI classes a hub may report; "Unknown..." has no mapping entry.
Widgets == {"DynamicShutter", "UnknownWidget"}
UIClasses == {"Light", "UnknownClass"}

\* OVERKIZ_DEVICE_TO_PLATFORM: widget or UI class -> platform.
OVERKIZ_DEVICE_TO_PLATFORM ==
    [k \in {"DynamicShutter", "Light"} |->
        IF k = "DynamicShutter" THEN "cover" ELSE "light"]

\* SUPPORTED_SERVERS of pyoverkiz: server key -> server descriptor.
SUPPORTED_SERVERS ==
    [k \in {"somfy_europe", "atlantic_cozytouch"} |->
        [name |-> k,
         manufacturer |-> IF k = "somfy_europe" THEN "Somfy" ELSE "Atlantic",
         configuration_url |-> IF k = "somfy_europe" THEN "https://www.tahomalink.com" ELSE None]]

\* generate_local_server(host) of pyoverkiz.
generate_local_server(host) ==
    [name |-> "Somfy Developer Mode (Local API)",
     manufacturer |-> "Somfy",
     configuration_url |-> None]

-----------------------------------------------------------------------------
(* Python helpers *)

\* dict.get(key): the value, or None when the key is missing.
DictGet(d, k) == IF k \in DOMAIN d THEN d[k] ELSE None

\* Python truthiness of a looked-up platform (a non-empty string enum or None).
Truthy(v) == v # None

\* a or b
PyOr(a, b) == IF Truthy(a) THEN a ELSE b

\* d.pop(k), with no default: the dict without the key, or KeyError raised
\* and the dict untouched when the key is missing.
DictPop(d, k) ==
    IF k \in DOMAIN d
    THEN [raised |-> None, dict |-> [x \in (DOMAIN d) \ {k} |-> d[x]]]
    ELSE [raised |-> "KeyError", dict |-> d]

\* dict with one key set (d[k] = v)
DictSet(d, k, v) == [x \in (DOMAIN d) \cup {k} |-> IF x = k THEN v ELSE d[x]]

-----------------------------------------------------------------------------
(* Exceptions: the classes login / get_setup / get_scenarios may raise *)

Exceptions ==
    {"BadCredentialsException", "NotSuchTokenException", "TooManyRequestsException",
     "TimeoutError", "ClientError", "ClientConnectorError",
     "ServerDisconnectedError", "MaintenanceException", "Exception"}

\* The direct base class of each exception class (aiohttp / pyoverkiz / builtins).
BaseClass(c) ==
    CASE c = "ClientConnectorError" -> "ClientError"
      [] c = "ServerDisconnectedError" -> "ClientError"
      [] c = "Exception" -> "BaseException"
      [] OTHER -> "Exception"

RECURSIVE IsInstance(_, _)
IsInstance(exc, cls) ==
    IF exc = cls THEN TRUE
    ELSE IF exc = "BaseException" THEN FALSE
    ELSE IsInstance(BaseClass(exc), cls)

\* The except clauses of async_setup_entry, in source order.
ExceptClauses ==
    << [classes |-> {"BadCredentialsException", "NotSuchTokenException"},
        raises |-> "ConfigEntryAuthFailed"],
       [classes |-> {"TooManyRequestsException"},
        raises |-> "ConfigEntryNotReady"],
       [classes |-> {"TimeoutError", "ClientError", "ClientConnectorError",
                     "ServerDisconnectedError"},
        raises |-> "ConfigEntryNotReady"],
       [classes |-> {"MaintenanceException"},
        raises |-> "ConfigEntryNotReady"] >>

RECURSIVE FirstMatch(_, _, _)
FirstMatch(clauses, i, exc) ==
    IF i > Len(clauses) THEN exc
    ELSE IF \E cls \in clauses[i].classes : IsInstance(exc, cls)
         THEN clauses[i].raises
         ELSE FirstMatch(clauses, i + 1, exc)

\* A plausible slip: the credential errors are reported as a transient failure.
HandleException_AuthAsNotReady(exc) ==
    IF exc \in {"BadCredentialsException", "NotSuchTokenException"}
    THEN "ConfigEntryNotReady"
    ELSE FirstMatch(ExceptClauses, 1, exc)

\* A plausible slip: MaintenanceException is listed in the first clause.
HandleException_Misfiled(exc) ==
    IF exc = "MaintenanceException" THEN "ConfigEntryAuthFailed"
    ELSE FirstMatch(ExceptClauses, 1, exc)

\* What the try / except of async_setup_entry raises for an exception of the
\* try body: the first matching clause's failure, else the exception itself.
HandleException(exc) == FirstMatch(ExceptClauses, 1, exc)

-----------------------------------------------------------------------------
(* async_migrate_entry *)

\* A plausible slip: the old key is left behind.
MigrateData_KeepsHub(data) ==
    DictSet(DictSet(data, CONF_SERVER, data[CONF_HUB]), CONF_API_TYPE, APIType_CLOUD)

\* v1 -> v2 entry data.
MigrateData(data) ==
    LET copied == data
        renamed == DictSet(copied, CONF_SERVER, data[CONF_HUB])
        popped == DictPop(renamed, CONF_HUB).dict
    IN  DictSet(popped, CONF_API_TYPE, APIType_CLOUD)

-----------------------------------------------------------------------------
(* Client construction *)

\* async_create_clientsession(hass, verify_ssl=True)
async_create_clientsession(verify_ssl) == [verify_ssl |-> verify_ssl]

\* OverkizClient(username, password, session, server, token=None)
OverkizClient(username, password, token, session, server) ==
    [username |-> username, password |-> password, token |-> token,
     session |-> session, server |-> server]

\* A plausible slip: the local branch keeps certificate verification on and
\* passes the stored credentials along.
ClientFactory_LocalLikeCloud(data) ==
    IF data[CONF_API_TYPE] = APIType_LOCAL
    THEN LET session == async_create_clientsession(TRUE)
         IN  [read |-> {CONF_API_TYPE, CONF_HOST, CONF_TOKEN, CONF_USERNAME, CONF_PASSWORD},
              sessions |-> <<session>>,
              clients |-> << OverkizClient(DictGet(data, CONF_USERNAME),
                                           DictGet(data, CONF_PASSWORD),
                                           data[CONF_TOKEN], session,
                                           generate_local_server(data[CONF_HOST])) >>]
    ELSE LET session == async_create_clientsession(TRUE)
         IN  [read |-> {CONF_API_TYPE, CONF_USERNAME, CONF_PASSWORD, CONF_SERVER},
              sessions |-> <<session>>,
              clients |-> << OverkizClient(data[CONF_USERNAME], data[CONF_PASSWORD],
                                           None, session,
                                           SUPPORTED_SERVERS[data[CONF_SERVER]]) >>]

\* The two branches that build the client: the keys of entry.data read, the
\* sessions created and the clients constructed.
ClientFactory(data) ==
    IF data[CONF_API_TYPE] = APIType_LOCAL
    THEN LET host == data[CONF_HOST]
             token == data[CONF_TOKEN]
             session == async_create_clientsession(FALSE)
         IN  [read |-> {CONF_API_TYPE, CONF_HOST, CONF_TOKEN},
              sessions |-> <<session>>,
              clients |-> << OverkizClient("", "", token, session,
                                           generate_local_server(host)) >>]
    ELSE LET username == data[CONF_USERNAME]
             password == data[CONF_PASSWORD]
             server == SUPPORTED_SERVERS[data[CONF_SERVER]]
             session == async_create_clientsession(TRUE)
         IN  [read |-> {CONF_API_TYPE, CONF_USERNAME, CONF_PASSWORD, CONF_SERVER},
              sessions |-> <<session>>,
              clients |-> << OverkizClient(username, password, None, session, server) >>]

-----------------------------------------------------------------------------
(* The coordinator *)

\* The coordinator's device dict: device id -> device, in insertion order; a
\* later device with a known id replaces the value and keeps the position.
RECURSIVE DevicesDict(_)
DevicesDict(devices) ==
    IF devices = <<>> THEN <<>>
    ELSE LET init == DevicesDict(SubSeq(devices, 1, Len(devices) - 1))
             d == devices[Len(devices)]
         IN  IF \E i \in 1..Len(init) : init[i].id = d.id
             THEN [i \in 1..Len(init) |-> IF init[i].id = d.id THEN d ELSE init[i]]
             ELSE Append(init, d)

\* is_stateless: every device reports an assumed state.
IsStateless(devices) == \A i \in 1..Len(devices) : devices[i].assumed

\* OverkizDataUpdateCoordinator(...): the object as constructed, data not yet loaded.
OverkizDataUpdateCoordinator(id, devices, update_interval, config_entry_id) ==
    [id |-> id,
     name |-> "device events",
     devices |-> DevicesDict(devices),
     data |-> <<>>,
     refreshed |-> FALSE,
     is_stateless |-> IsStateless(devices),
     update_interval |-> update_interval,
     config_entry_id |-> config_entry_id]

\* async_config_entry_first_refresh() succeeding: data holds the devices.
FirstRefresh(c) == [c EXCEPT !.data = c.devices, !.refreshed = TRUE]

\* A plausible slip: the interval is never widened.
IntervalAfterRefresh_NeverWidened(c) == c

\* The interval adjustment after the first refresh.
IntervalAfterRefresh(c) ==
    IF c.is_stateless
    THEN [c EXCEPT !.update_interval = UPDATE_INTERVAL_ALL_ASSUMED_STATE]
    ELSE c

-----------------------------------------------------------------------------
(* Device classification *)

\* A plausible slip: the UI class is looked up first.
ClassifyDevice_UIClassFirst(device) ==
    PyOr(DictGet(OVERKIZ_DEVICE_TO_PLATFORM, device.ui_class),
         DictGet(OVERKIZ_DEVICE_TO_PLATFORM, device.widget))

\* OVERKIZ_DEVICE_TO_PLATFORM.get(widget) or OVERKIZ_DEVICE_TO_PLATFORM.get(ui_class)
ClassifyDevice(device) ==
    PyOr(DictGet(OVERKIZ_DEVICE_TO_PLATFORM, device.widget),
         DictGet(OVERKIZ_DEVICE_TO_PLATFORM, device.ui_class))

\* platforms[platform].append(device) on a defaultdict(list)
DefaultDictAppend(platforms, platform, device) ==
    DictSet(platforms, platform,
            Append(IF platform \in DOMAIN platforms THEN platforms[platform] ELSE <<>>,
                   device))

\* The loop over coordinator.data.values(), from the empty defaultdict.
RECURSIVE MapDevices(_)
MapDevices(data) ==
    IF data = <<>> THEN <<>>
    ELSE LET platforms == MapDevices(SubSeq(data, 1, Len(data) - 1))
             device == data[Len(data)]
             platform == ClassifyDevice(device)
         IN  IF Truthy(platform)
             THEN DefaultDictAppend(platforms, platform, device)
             ELSE platforms

-----------------------------------------------------------------------------
(* Gateway registration *)

\* A member of an integer enumeration (GatewayType, GatewaySubType), and the
\* value None in its place.
EnumMember(name, value) == [is_none |-> FALSE, beautify_name |-> name, value |-> value]
NoMember == [is_none |-> TRUE, beautify_name |-> None, value |-> 0]

\* Python truthiness of an optional enum member: None is falsy, and so is a
\* member of an integer enumeration whose value is 0.
MemberTruthy(m) == ~m.is_none /\ m.value # 0

\* device_registry.async_get_or_create(...) for one gateway: the record with
\* these identifiers is created, or updated and linked to the config entry.
GetOrCreate(registry, entry_id, gateway, client) ==
    DictSet(registry, gateway.id,
        [config_entries |->
            (IF gateway.id \in DOMAIN registry
             THEN registry[gateway.id].config_entries ELSE {}) \cup {entry_id},
         model |-> IF MemberTruthy(gateway.sub_type)
                   THEN gateway.sub_type.beautify_name ELSE None,
         manufacturer |-> client.server.manufacturer,
         name |-> IF MemberTruthy(gateway.type)
                  THEN gateway.type.beautify_name ELSE gateway.id,
         sw_version |-> gateway.protocol_version,
         configuration_url |-> client.server.configuration_url])

RECURSIVE RegisterFirst(_, _, _, _, _)
RegisterFirst(registry, entry_id, gateways, client, n) ==
    IF n = 0 THEN registry
    ELSE GetOrCreate(RegisterFirst(registry, entry_id, gateways, client, n - 1),
                     entry_id, gateways[n], client)

\* A plausible slip: the loop stops one gateway short.
RegisterGateways_SkipsLast(registry, entry_id, gateways, client, n) ==
    RegisterFirst(registry, entry_id, gateways, client, IF n > 0 THEN n - 1 ELSE 0)

\* The loop over setup.gateways, having completed n registrations.
RegisterGateways(registry, entry_id, gateways, client, n) ==
    RegisterFirst(registry, entry_id, gateways, client, n)

-----------------------------------------------------------------------------
(* The registry of runtime bundles: hass.data[DOMAIN] *)

\* HomeAssistantOverkizData(coordinator, platforms, scenarios)
HomeAssistantOverkizData(coordinator, platforms, scenarios) ==
    [coordinator |-> coordinator, platforms |-> platforms, scenarios |-> scenarios]

\* A plausible slip: the domain dict is replaced instead of extended.
StoreBundle_Replaces(data, entry_id, bundle) == [x \in {entry_id} |-> bundle]

\* hass.data.setdefault(DOMAIN, {})[entry.entry_id] = bundle
StoreBundle(data, entry_id, bundle) == DictSet(data, entry_id, bundle)

\* A plausible slip: the bundle is dropped whatever the platform unload said.
UnloadData_AlwaysPops(data, entry_id, unload_ok) == DictPop(data, entry_id)

\* return unload_ok
UnloadResult(unload_ok) == unload_ok

\* if unload_ok: hass.data[DOMAIN].pop(entry.entry_id)
\* The registry afterwards, and the exception the pop raised (None if none).
UnloadData(data, entry_id, unload_ok) ==
    IF unload_ok THEN DictPop(data, entry_id) ELSE [raised |-> None, dict |-> data]

-----------------------------------------------------------------------------
(* The inputs: config entries and hub inventories *)

\* The entry of a local-mode hub (host and token) at schema version 2.
LocalEntry ==
    [version |-> 2,
     data |-> [k \in {CONF_HOST, CONF_TOKEN, CONF_API_TYPE} |->
                  CASE k = CONF_HOST -> "gateway-1234.local:8443"
                    [] k = CONF_TOKEN -> "t0k3n"
                    [] OTHER -> APIType_LOCAL]]

\* The entry of a cloud account (username, password, server) at version 2.
CloudEntry ==
    [version |-> 2,
     data |-> [k \in {CONF_SERVER, CONF_USERNAME, CONF_PASSWORD, CONF_API_TYPE} |->
                  CASE k = CONF_SERVER -> "atlantic_cozytouch"
                    [] k = CONF_USERNAME -> "user@example.org"
                    [] k = CONF_PASSWORD -> "secret"
                    [] OTHER -> APIType_CLOUD]]

\* Entries async_setup_entry is called with: migrated, one of the two shapes.
ConfigEntries == {LocalEntry, CloudEntry}

\* The value stored under each key in the entries handed to the migration.
SampleValue(k, h) ==
    CASE k = CONF_HUB -> h
      [] k = CONF_USERNAME -> "user@example.org"
      [] k = CONF_PASSWORD -> "secret"
      [] k = CONF_SERVER -> "stale_server"
      [] k = CONF_API_TYPE -> APIType_LOCAL
      [] k = CONF_HOST -> "gateway-1234.local:8443"
      [] OTHER -> "t0k3n"

\* Entries async_migrate_entry is called with: version-1 entries, which hold
\* the hub key and any of the other keys, and the two version-2 entries.
MigrationEntries ==
    { [version |-> 1, data |-> [k \in ks \cup {CONF_HUB} |-> SampleValue(k, h)]] :
        ks \in SUBSET {CONF_USERNAME, CONF_PASSWORD, CONF_SERVER, CONF_API_TYPE,
                       CONF_HOST, CONF_TOKEN},
        h \in DOMAIN SUPPORTED_SERVERS }
    \cup ConfigEntries

\* Devices a hub may report: every combination of a matching / non-matching
\* widget and UI class, two of them under the same device id.
Devices ==
    { [id |-> "io://1/1", widget |-> "DynamicShutter", ui_class |-> "Light", assumed |-> TRUE],
      [id |-> "io://1/1", widget |-> "UnknownWidget", ui_class |-> "Light", assumed |-> FALSE],
      [id |-> "io://1/2", widget |-> "UnknownWidget", ui_class |-> "UnknownClass", assumed |-> TRUE],
      [id |-> "io://1/2", widget |-> "DynamicShutter", ui_class |-> "UnknownClass", assumed |-> FALSE] }

\* Gateways a hub may report: one with a type and a sub-type, and a second
\* one reported either with neither or with members of value 0 for both.
Gateways ==
    { [id |-> "1234-0000-0001", type |-> EnumMember("TaHoma", 29),
       sub_type |-> EnumMember("TaHoma Switch", 13),
       protocol_version |-> "2023.1.4"],
      [id |-> "1234-0000-0002", type |-> NoMember, sub_type |-> NoMember,
       protocol_version |-> "2023.1.4"],
      [id |-> "1234-0000-0002", type |-> EnumMember("Virtual Kizbox", 0),
       sub_type |-> EnumMember("TaHoma Basic", 0),
       protocol_version |-> "2023.1.4"] }

SeqsUpTo(S, n) == UNION { [1..k -> S] : k \in 0..n }

\* What get_setup() and get_scenarios() return: up to MaxDevices devices and
\* up to MaxGateways gateways, at most one of the two lists holding more than
\* one element.
Inventories ==
    { inv \in { [devices |-> ds, gateways |-> gs, scenarios |-> <<"scenario-1">>] :
                  ds \in SeqsUpTo(Devices, MaxDevices),
                  gs \in SeqsUpTo(Gateways, MaxGateways) } :
        Len(inv.devices) <= 1 \/ Len(inv.gateways) <= 1 }

\* The inventories of the two-entry specification: each entry's hub has its
\* own gateway and reports one device, either of the two sharing a device id.
ConcInventories(e) ==
    { inv \in Inventories :
        /\ Len(inv.devices) = 1
        /\ inv.devices[1].ui_class = "Light"
        /\ Len(inv.gateways) = 1
        /\ inv.gateways[1].type = (IF e = "e2" THEN NoMember
                                   ELSE EnumMember("TaHoma", 29)) }

\* What async_config_entry_first_refresh raises when the first update fails.
RefreshFailures == {"ConfigEntryNotReady", "ConfigEntryAuthFailed"}

-----------------------------------------------------------------------------
(* Object identity *)

\* Identities of the coordinator objects still referenced.
LiveIds ==
    UNION { { coord[e][i].id : i \in 1..Len(coord[e]) } : e \in EntryIds }
    \cup { hassData[e].coordinator.id : e \in DOMAIN hassData }

\* The identity of a newly allocated object: one no live object has.
FreshId == CHOOSE n \in 0..(2 * Cardinality(EntryIds)) :
              /\ n \notin LiveIds
              /\ \A m \in 0..(2 * Cardinality(EntryIds)) : m \notin LiveIds => n <= m

-----------------------------------------------------------------------------
(* Initial states *)

InitCommon ==
    /\ hub = [e \in EntryIds |-> <<>>]
    /\ persisted = [e \in EntryIds |-> <<>>]
    /\ preMigration = [e \in EntryIds |-> <<>>]
    /\ migrateReturn = [e \in EntryIds |-> <<>>]
    /\ pc = [e \in EntryIds |-> "not_loaded"]
    /\ outcome = [e \in EntryIds |-> "none"]
    /\ cause = [e \in EntryIds |-> "none"]
    /\ failedAt = [e \in EntryIds |-> "none"]
    /\ steps = [e \in EntryIds |-> {}]
    /\ readKeys = [e \in EntryIds |-> {}]
    /\ sessions = [e \in EntryIds |-> <<>>]
    /\ clients = [e \in EntryIds |-> <<>>]
    /\ coord = [e \in EntryIds |-> <<>>]
    /\ hassData = <<>>
    /\ deviceRegistry = <<>>
    /\ forwarded = [e \in EntryIds |-> {}]
    /\ unloadRequested = [e \in EntryIds |-> {}]
    /\ platformUnload = [e \in EntryIds |-> <<>>]
    /\ unloadRaised = [e \in EntryIds |-> None]
    /\ unloadReturn = [e \in EntryIds |-> <<>>]
    /\ bundleAtUnload = [e \in EntryIds |-> <<>>]

\* One config entry, any persisted shape.
Init ==
    /\ active = {"e1"}
    /\ \E c \in ConfigEntries :
          entries = [e \in EntryIds |-> IF e = "e1" THEN c ELSE LocalEntry]
    /\ InitCommon

\* One config entry about to be migrated.
InitMigrate ==
    /\ active = {"e1"}
    /\ \E c \in MigrationEntries :
          entries = [e \in EntryIds |-> IF e = "e1" THEN c ELSE LocalEntry]
    /\ InitCommon

\* Two config entries, one local and one cloud.
InitConc ==
    /\ active = EntryIds
    /\ entries = [e \in EntryIds |-> IF e = "e1" THEN LocalEntry ELSE CloudEntry]
    /\ InitCommon

-----------------------------------------------------------------------------
(* async_migrate_entry *)

Migrate(e) ==
    /\ pc[e] = "not_loaded"
    /\ preMigration' = [preMigration EXCEPT ![e] = <<entries[e]>>]
    /\ \/ /\ entries[e].version = 1
          /\ LET v2_entry_data == MigrateData(entries[e].data)
             IN  /\ entries' = [entries EXCEPT ![e] = [version |-> 2, data |-> v2_entry_data]]
                 /\ persisted' = [persisted EXCEPT ![e] = <<v2_entry_data>>]
       \/ /\ entries[e].version # 1
          /\ UNCHANGED <<entries, persisted>>
    /\ migrateReturn' = [migrateReturn EXCEPT ![e] = <<TRUE>>]
    /\ UNCHANGED <<active, hub, pc, outcome, cause, failedAt, steps, readKeys,
                   sessions, clients, coord, hassData, deviceRegistry, forwarded,
                   unloadRequested, platformUnload, unloadRaised, unloadReturn, bundleAtUnload>>

-----------------------------------------------------------------------------
(* async_setup_entry *)

\* The setup coroutine ends by raising `raised`, the exception `exc` having
\* occurred at step `step`. A failure after the fetch drops the coroutine's
\* locals setup, scenarios and coordinator with it.
Raise(e, raised, exc, step) ==
    /\ pc' = [pc EXCEPT ![e] = "not_loaded"]
    /\ outcome' = [outcome EXCEPT ![e] = raised]
    /\ cause' = [cause EXCEPT ![e] = exc]
    /\ failedAt' = [failedAt EXCEPT ![e] = step]

\* Client construction, up to the suspension in client.login().
SetupStart(e) ==
    /\ pc[e] = "not_loaded"
    /\ entries[e].version = 2
    /\ LET f == ClientFactory(entries[e].data)
       IN  /\ readKeys' = [readKeys EXCEPT ![e] = f.read]
           /\ sessions' = [sessions EXCEPT ![e] = f.sessions]
           /\ clients' = [clients EXCEPT ![e] = f.clients]
    /\ pc' = [pc EXCEPT ![e] = "login"]
    /\ outcome' = [outcome EXCEPT ![e] = "pending"]
    /\ cause' = [cause EXCEPT ![e] = "none"]
    /\ failedAt' = [failedAt EXCEPT ![e] = "none"]
    /\ steps' = [steps EXCEPT ![e] = {"client", "login"}]
    /\ coord' = [coord EXCEPT ![e] = <<>>]
    /\ forwarded' = [forwarded EXCEPT ![e] = {}]
    /\ unloadRequested' = [unloadRequested EXCEPT ![e] = {}]
    /\ platformUnload' = [platformUnload EXCEPT ![e] = <<>>]
    /\ unloadRaised' = [unloadRaised EXCEPT ![e] = None]
    /\ unloadReturn' = [unloadReturn EXCEPT ![e] = <<>>]
    /\ bundleAtUnload' = [bundleAtUnload EXCEPT ![e] = <<>>]
    /\ hub' = [hub EXCEPT ![e] = <<>>]
    /\ UNCHANGED <<active, entries, persisted, preMigration, migrateReturn,
                   hassData, deviceRegistry>>

\* client.login() returns; the coroutine suspends in asyncio.gather.
LoginOk(e) ==
    /\ pc[e] = "login"
    /\ pc' = [pc EXCEPT ![e] = "fetch"]
    /\ steps' = [steps EXCEPT ![e] = @ \cup {"gather"}]
    /\ UNCHANGED <<active, hub, entries, persisted, preMigration, migrateReturn,
                   outcome, cause, failedAt, readKeys, sessions, clients, coord,
                   hassData, deviceRegistry, forwarded, unloadRequested,
                   platformUnload, unloadRaised, unloadReturn, bundleAtUnload>>

\* client.login() raises exc.
LoginFail(e, exc) ==
    /\ pc[e] = "login"
    /\ Raise(e, HandleException(exc), exc, "login")
    /\ UNCHANGED <<active, hub, entries, persisted, preMigration, migrateReturn,
                   steps, readKeys, sessions, clients, coord, hassData,
                   deviceRegistry, forwarded, unloadRequested, platformUnload, unloadRaised, unloadReturn,
                   bundleAtUnload>>

\* get_setup() or get_scenarios() raises exc.
FetchFail(e, exc) ==
    /\ pc[e] = "fetch"
    /\ Raise(e, HandleException(exc), exc, "fetch")
    /\ UNCHANGED <<active, hub, entries, persisted, preMigration, migrateReturn,
                   steps, readKeys, sessions, clients, coord, hassData,
                   deviceRegistry, forwarded, unloadRequested, platformUnload, unloadRaised, unloadReturn,
                   bundleAtUnload>>

\* Both fetches return; the coordinator is constructed and the coroutine
\* suspends in its first refresh.
FetchOk(e, inv) ==
    /\ pc[e] = "fetch"
    /\ hub' = [hub EXCEPT ![e] = <<inv>>]
    /\ coord' = [coord EXCEPT ![e] =
                    << OverkizDataUpdateCoordinator(FreshId, inv.devices,
                                                    UPDATE_INTERVAL, e) >>]
    /\ pc' = [pc EXCEPT ![e] = "refresh"]
    /\ steps' = [steps EXCEPT ![e] = @ \cup {"coordinator", "first_refresh"}]
    /\ UNCHANGED <<active, entries, persisted, preMigration, migrateReturn,
                   outcome, cause, failedAt, readKeys, sessions, clients,
                   hassData, deviceRegistry, forwarded, unloadRequested,
                   platformUnload, unloadRaised, unloadReturn, bundleAtUnload>>

\* The first refresh fails.
RefreshFail(e, exc) ==
    /\ pc[e] = "refresh"
    /\ Raise(e, exc, exc, "refresh")
    /\ hub' = [hub EXCEPT ![e] = <<>>]
    /\ coord' = [coord EXCEPT ![e] = <<>>]
    /\ UNCHANGED <<active, entries, persisted, preMigration, migrateReturn,
                   steps, readKeys, sessions, clients, hassData,
                   deviceRegistry, forwarded, unloadRequested, platformUnload, unloadRaised, unloadReturn,
                   bundleAtUnload>>

\* The coordinator after the first refresh and the interval adjustment.
PrimedCoordinator(e) == IntervalAfterRefresh(FirstRefresh(coord[e][1]))

\* The bundle stored for the entry, its platform mapping filled by the loop.
BundleOf(e) ==
    HomeAssistantOverkizData(PrimedCoordinator(e),
                             MapDevices(PrimedCoordinator(e).data),
                             hub[e][1].scenarios)

\* The first refresh returns: interval adjustment, bundle store, device
\* classification, registration of every gateway, and the suspension in
\* async_forward_entry_setups.
RefreshOk(e) ==
    /\ pc[e] = "refresh"
    /\ coord' = [coord EXCEPT ![e] = <<PrimedCoordinator(e)>>]
    /\ hassData' = StoreBundle(hassData, e, BundleOf(e))
    /\ deviceRegistry' = RegisterGateways(deviceRegistry, e, hub[e][1].gateways,
                                          clients[e][1], Len(hub[e][1].gateways))
    /\ forwarded' = [forwarded EXCEPT ![e] = PLATFORMS]
    /\ pc' = [pc EXCEPT ![e] = "forward"]
    /\ steps' = [steps EXCEPT ![e] = @ \cup {"store", "register", "forward"}]
    /\ UNCHANGED <<active, hub, entries, persisted, preMigration, migrateReturn,
                   outcome, cause, failedAt, readKeys, sessions, clients,
                   unloadRequested, platformUnload, unloadRaised, unloadReturn, bundleAtUnload>>

\* The first refresh returns and async_get_or_create raises on gateway n + 1.
RegisterFail(e, n) ==
    /\ pc[e] = "refresh"
    /\ n < Len(hub[e][1].gateways)
    /\ coord' = [coord EXCEPT ![e] = <<>>]
    /\ hub' = [hub EXCEPT ![e] = <<>>]
    /\ hassData' = StoreBundle(hassData, e, BundleOf(e))
    /\ deviceRegistry' = RegisterGateways(deviceRegistry, e, hub[e][1].gateways,
                                          clients[e][1], n)
    /\ steps' = [steps EXCEPT ![e] = @ \cup {"store", "register"}]
    /\ Raise(e, "Exception", "Exception", "register")
    /\ UNCHANGED <<active, entries, persisted, preMigration, migrateReturn,
                   readKeys, sessions, clients, forwarded, unloadRequested,
                   platformUnload, unloadRaised, unloadReturn, bundleAtUnload>>

\* async_forward_entry_setups returns; async_setup_entry returns True.
ForwardOk(e) ==
    /\ pc[e] = "forward"
    /\ pc' = [pc EXCEPT ![e] = "loaded"]
    /\ outcome' = [outcome EXCEPT ![e] = "True"]
    /\ UNCHANGED <<active, hub, entries, persisted, preMigration, migrateReturn,
                   cause, failedAt, steps, readKeys, sessions, clients, coord,
                   hassData, deviceRegistry, forwarded, unloadRequested,
                   platformUnload, unloadRaised, unloadReturn, bundleAtUnload>>

\* async_forward_entry_setups raises.
ForwardFail(e) ==
    /\ pc[e] = "forward"
    /\ Raise(e, "Exception", "Exception", "forward")
    /\ hub' = [hub EXCEPT ![e] = <<>>]
    /\ coord' = [coord EXCEPT ![e] = <<>>]
    /\ UNCHANGED <<active, entries, persisted, preMigration, migrateReturn,
                   steps, readKeys, sessions, clients, hassData,
                   deviceRegistry, forwarded, unloadRequested, platformUnload, unloadRaised, unloadReturn,
                   bundleAtUnload>>

-----------------------------------------------------------------------------
(* async_unload_entry *)

\* The call of async_unload_platforms(entry, PLATFORMS), where it suspends.
UnloadStart(e) ==
    /\ pc[e] \in {"loaded", "failed_unload"}
    /\ pc' = [pc EXCEPT ![e] = "unloading"]
    /\ unloadRequested' = [unloadRequested EXCEPT ![e] = PLATFORMS]
    /\ bundleAtUnload' = [bundleAtUnload EXCEPT ![e] = <<hassData>>]
    /\ platformUnload' = [platformUnload EXCEPT ![e] = <<>>]
    /\ unloadRaised' = [unloadRaised EXCEPT ![e] = None]
    /\ unloadReturn' = [unloadReturn EXCEPT ![e] = <<>>]
    /\ UNCHANGED <<active, hub, entries, persisted, preMigration, migrateReturn,
                   outcome, cause, failedAt, steps, readKeys, sessions, clients,
                   coord, hassData, deviceRegistry, forwarded>>

\* async_unload_platforms returns unload_ok; the bundle is popped on success.
UnloadDone(e, unload_ok) ==
    /\ pc[e] = "unloading"
    /\ platformUnload' = [platformUnload EXCEPT ![e] = <<unload_ok>>]
    /\ LET r == UnloadData(hassData, e, unload_ok)
       IN  /\ hassData' = r.dict
           /\ unloadRaised' = [unloadRaised EXCEPT ![e] = r.raised]
           /\ IF r.raised = None
              THEN /\ unloadReturn' = [unloadReturn EXCEPT ![e] = <<UnloadResult(unload_ok)>>]
                   /\ pc' = [pc EXCEPT ![e] = IF UnloadResult(unload_ok) THEN "not_loaded"
                                               ELSE "failed_unload"]
              ELSE /\ unloadReturn' = [unloadReturn EXCEPT ![e] = <<>>]
                   /\ pc' = [pc EXCEPT ![e] = "failed_unload"]
    /\ UNCHANGED <<active, hub, entries, persisted, preMigration, migrateReturn,
                   outcome, cause, failedAt, steps, readKeys, sessions, clients,
                   coord, deviceRegistry, forwarded, unloadRequested,
                   bundleAtUnload>>

-----------------------------------------------------------------------------
(* Specifications *)

Next ==
    \/ \E e \in active : SetupStart(e)
    \/ \E e \in active : LoginOk(e)
    \/ \E e \in active, exc \in Exceptions : LoginFail(e, exc)
    \/ \E e \in active, exc \in Exceptions : FetchFail(e, exc)
    \/ \E e \in active, inv \in Inventories : FetchOk(e, inv)
    \/ \E e \in active, exc \in RefreshFailures : RefreshFail(e, exc)
    \/ \E e \in active : RefreshOk(e)
    \/ \E e \in active, n \in 0..MaxGateways : RegisterFail(e, n)
    \/ \E e \in active : ForwardOk(e)
    \/ \E e \in active : ForwardFail(e)
    \/ \E e \in active : UnloadStart(e)
    \/ \E e \in active, unload_ok \in BOOLEAN : UnloadDone(e, unload_ok)

Spec == Init /\ [][Next]_vars

\* The host framework migrating an entry, possibly more than once.
NextMigrate == \E e \in active : Migrate(e)

SpecMigrate == InitMigrate /\ [][NextMigrate]_vars

\* Two entries whose setups and unloads interleave at their suspension points.
NextConc ==
    \/ \E e \in active : SetupStart(e)
    \/ \E e \in active : LoginOk(e)
    \/ \E e \in active, exc \in Exceptions : LoginFail(e, exc)
    \/ \E e \in active, exc \in Exceptions : FetchFail(e, exc)
    \/ \E e \in active : \E inv \in ConcInventories(e) : FetchOk(e, inv)
    \/ \E e \in active, exc \in RefreshFailures : RefreshFail(e, exc)
    \/ \E e \in active : RefreshOk(e)
    \/ \E e \in active, n \in 0..MaxGateways : RegisterFail(e, n)
    \/ \E e \in active : ForwardOk(e)
    \/ \E e \in active : ForwardFail(e)
    \/ \E e \in active : UnloadStart(e)
    \/ \E e \in active, unload_ok \in BOOLEAN : UnloadDone(e, unload_ok)

SpecConc == InitConc /\ [][NextConc]_vars

-----------------------------------------------------------------------------
(* Properties *)

\* The steps of async_setup_entry that follow the try block.
AfterTry == {"coordinator", "first_refresh", "store", "register", "forward"}

AuthErrors == {"BadCredentialsException", "NotSuchTokenException"}

TransientErrors ==
    {"TooManyRequestsException", "TimeoutError", "ClientConnectorError",
     "ClientError", "ServerDisconnectedError", "MaintenanceException"}

\* C1: a setup whose login failed with a bad-credentials or no-such-token
\* error has ended by raising ConfigEntryAuthFailed, and that attempt has
\* constructed no coordinator and done no first refresh, bundle store,
\* gateway registration or platform forward.
C1_AuthFailureRaised ==
    \A e \in active :
        (failedAt[e] = "login" /\ cause[e] \in AuthErrors) =>
            /\ pc[e] = "not_loaded"
            /\ outcome[e] = "ConfigEntryAuthFailed"
            /\ coord[e] = <<>>
            /\ steps[e] \cap AfterTry = {}

C1_Witness ==
    \E e \in active :
        /\ failedAt[e] = "login"
        /\ cause[e] = "NotSuchTokenException"
        /\ outcome[e] = "ConfigEntryAuthFailed"

\* C2: a setup whose login failed with a too-many-requests, timeout,
\* connector, client, server-disconnect or maintenance error has ended by
\* raising ConfigEntryNotReady (never ConfigEntryAuthFailed), and that attempt
\* has constructed no coordinator.
C2_TransientFailureRaised ==
    \A e \in active :
        (failedAt[e] = "login" /\ cause[e] \in TransientErrors) =>
            /\ pc[e] = "not_loaded"
            /\ outcome[e] = "ConfigEntryNotReady"
            /\ outcome[e] # "ConfigEntryAuthFailed"
            /\ coord[e] = <<>>
            /\ steps[e] \cap AfterTry = {}

C2_Witness ==
    \E e \in active :
        /\ failedAt[e] = "login"
        /\ cause[e] = "ServerDisconnectedError"
        /\ outcome[e] = "ConfigEntryNotReady"

\* C3: once async_unload_entry has returned, it has returned what the
\* platform unload reported; if that was success the entry's bundle is gone,
\* and if it was failure the bundle is still stored under the entry id, equal
\* to what it was when the unload began.
C3_UnloadRemovesIffOk ==
    \A e \in active :
        platformUnload[e] # <<>> =>
            /\ unloadRaised[e] = None
            /\ unloadReturn[e] = platformUnload[e]
            /\ platformUnload[e][1] => e \notin DOMAIN hassData
            /\ ~platformUnload[e][1] =>
                  /\ e \in DOMAIN hassData
                  /\ e \in DOMAIN bundleAtUnload[e][1]
                  /\ hassData[e] = bundleAtUnload[e][1][e]

C3_Witness ==
    \E e \in active :
        /\ unloadReturn[e] = <<FALSE>>
        /\ pc[e] = "failed_unload"
        /\ e \in DOMAIN hassData

\* C4: after a setup that failed at any step, the registry holds no bundle
\* for the entry.
C4_NoPartialSetup ==
    \A e \in active :
        (pc[e] = "not_loaded" /\ failedAt[e] # "none") => e \notin DOMAIN hassData

\* C5: a version-1 entry handed to the migration is at version 2, its server
\* is the old hub, the hub key is gone, the API type is cloud, every other key
\* keeps its value, the new data went through async_update_entry, and the
\* migration returned True.
C5_MigrationV1toV2 ==
    \A e \in active :
        (preMigration[e] # <<>> /\ preMigration[e][1].version = 1) =>
            LET old == preMigration[e][1].data
                new == entries[e].data
                renamed == {CONF_HUB, CONF_SERVER, CONF_API_TYPE}
            IN  /\ entries[e].version = 2
                /\ CONF_SERVER \in DOMAIN new
                /\ new[CONF_SERVER] = old[CONF_HUB]
                /\ CONF_HUB \notin DOMAIN new
                /\ CONF_API_TYPE \in DOMAIN new
                /\ new[CONF_API_TYPE] = APIType_CLOUD
                /\ (DOMAIN new) \ renamed = (DOMAIN old) \ renamed
                /\ \A k \in (DOMAIN old) \ renamed : new[k] = old[k]
                /\ persisted[e] = <<new>>
                /\ migrateReturn[e] = <<TRUE>>

C5_Witness ==
    \E e \in active :
        /\ preMigration[e] # <<>>
        /\ preMigration[e][1].version = 1
        /\ CONF_SERVER \in DOMAIN preMigration[e][1].data
        /\ CONF_USERNAME \in DOMAIN preMigration[e][1].data
        /\ entries[e].version = 2
        /\ entries[e].data[CONF_SERVER] = "somfy_europe"

\* The interval prescribed for a coordinator.
PrescribedInterval(c) ==
    IF c.is_stateless THEN UPDATE_INTERVAL_ALL_ASSUMED_STATE ELSE UPDATE_INTERVAL

\* C6: from the bundle store on, the coordinator's polling interval is the
\* slow constant if the coordinator is stateless and the default constant
\* otherwise, in the setup's coordinator and in the stored bundle alike.
C6_IntervalAfterRefresh ==
    \A e \in active :
        /\ ("store" \in steps[e] /\ coord[e] # <<>>) =>
              /\ coord[e][1].refreshed
              /\ coord[e][1].update_interval = PrescribedInterval(coord[e][1])
        /\ e \in DOMAIN hassData =>
              hassData[e].coordinator.update_interval =
                  PrescribedInterval(hassData[e].coordinator)

C6_Witness ==
    \E e \in active :
        /\ pc[e] = "loaded"
        /\ hub[e][1].devices # <<>>
        /\ hassData[e].coordinator.is_stateless
        /\ hassData[e].coordinator.update_interval = UPDATE_INTERVAL_ALL_ASSUMED_STATE

\* The bucket prescribed for a device: its widget's mapping entry
\* if there is one, else its UI class's, else none.
PrescribedBucket(d) ==
    IF d.widget \in DOMAIN OVERKIZ_DEVICE_TO_PLATFORM
    THEN OVERKIZ_DEVICE_TO_PLATFORM[d.widget]
    ELSE IF d.ui_class \in DOMAIN OVERKIZ_DEVICE_TO_PLATFORM
         THEN OVERKIZ_DEVICE_TO_PLATFORM[d.ui_class]
         ELSE None

\* How many times device d occurs in the bucket of platform p.
Occurrences(platforms, p, d) ==
    IF p \in DOMAIN platforms
    THEN Cardinality({i \in 1..Len(platforms[p]) : platforms[p][i] = d})
    ELSE 0

\* C7: in a stored bundle, every device the coordinator holds occurs exactly
\* once in its prescribed bucket and in no other, a device with no prescribed
\* bucket occurs nowhere, and the buckets hold nothing else.
C7_Classification ==
    \A e \in DOMAIN hassData :
        LET data == hassData[e].coordinator.data
            platforms == hassData[e].platforms
        IN  /\ \A i \in 1..Len(data) : \A p \in PLATFORMS \cup DOMAIN platforms :
                  Occurrences(platforms, p, data[i]) =
                      IF p = PrescribedBucket(data[i]) THEN 1 ELSE 0
            /\ \A p \in DOMAIN platforms : \A j \in 1..Len(platforms[p]) :
                  \E i \in 1..Len(data) : data[i] = platforms[p][j]

C7_Witness ==
    \E e \in active :
        /\ pc[e] = "loaded"
        /\ outcome[e] = "True"
        /\ LET data == hassData[e].coordinator.data
           IN  /\ Len(data) = 2
               /\ \E i \in 1..2 : /\ data[i].widget = "DynamicShutter"
                                  /\ data[i].ui_class = "Light"
                                  /\ hassData[e].platforms["cover"] = <<data[i]>>
               /\ \E i \in 1..2 : PrescribedBucket(data[i]) = None

\* C8: for a local entry the client construction has read no key but the
\* flag, the host and the token, has created one session with certificate
\* verification off and has constructed one client, the local one; for any
\* other entry the one session has verification on.
C8_ClientFactory ==
    \A e \in active :
        "client" \in steps[e] =>
            IF entries[e].data[CONF_API_TYPE] = APIType_LOCAL
            THEN /\ readKeys[e] \subseteq {CONF_API_TYPE, CONF_HOST, CONF_TOKEN}
                 /\ readKeys[e] \cap {CONF_USERNAME, CONF_PASSWORD, CONF_SERVER} = {}
                 /\ Len(sessions[e]) = 1
                 /\ ~sessions[e][1].verify_ssl
                 /\ Len(clients[e]) = 1
                 /\ clients[e][1].token = entries[e].data[CONF_TOKEN]
                 /\ clients[e][1].username = ""
                 /\ clients[e][1].password = ""
                 /\ clients[e][1].server = generate_local_server(entries[e].data[CONF_HOST])
                 /\ clients[e][1].session = sessions[e][1]
            ELSE /\ Len(sessions[e]) = 1
                 /\ sessions[e][1].verify_ssl

C8_Witness ==
    \E e \in active :
        /\ pc[e] = "login"
        /\ entries[e].data[CONF_API_TYPE] = APIType_LOCAL
        /\ Len(clients[e]) = 1
        /\ ~sessions[e][1].verify_ssl

StoredBundle(data, e) == IF e \in DOMAIN data THEN <<data[e]>> ELSE <<>>

\* C10: a step that is not a step of entry e leaves e's bundle as it is; e's
\* bundle appears only when e's own setup stores it and disappears only when
\* e's own unload ends with success; a stored bundle carries its own entry's
\* coordinator, and two stored bundles never carry the same coordinator.
C10_EntriesIndependent ==
    /\ [][\A e \in active :
            /\ pc'[e] = pc[e] => StoredBundle(hassData', e) = StoredBundle(hassData, e)
            /\ (e \notin DOMAIN hassData /\ e \in DOMAIN hassData') =>
                  (pc[e] = "refresh" /\ pc'[e] \in {"forward", "not_loaded"})
            /\ (e \in DOMAIN hassData /\ e \notin DOMAIN hassData') =>
                  (pc[e] = "unloading" /\ pc'[e] = "not_loaded"
                   /\ platformUnload'[e] = <<TRUE>>)]_vars
    /\ [](\A e \in DOMAIN hassData :
            /\ hassData[e].coordinator.config_entry_id = e
            /\ \A f \in (DOMAIN hassData) \ {e} :
                  hassData[e].coordinator.id # hassData[f].coordinator.id)

C10_Witness ==
    /\ DOMAIN hassData = EntryIds
    /\ pc["e1"] = "not_loaded"
    /\ failedAt["e1"] = "forward"
    /\ pc["e2"] = "failed_unload"

====
